---- MODULE Spec2Model ----
(***************************************************************************)
(* Duplicate detection between plant-pollinator networks (NetLab).         *)
(*                                                                         *)
(* Strings are sequences of one-character strings, so that str.split and   *)
(* the regular expressions of duplicate_finder.py are computed character   *)
(* by character.  A Python dict is a function whose DOMAIN is its key set. *)
(***************************************************************************)
EXTENDS Integers, Sequences, FiniteSets, TLC

VARIABLES
    set1, set2,         \* map_nodeset: the two label sets
    pset1, pset2,       \* map_nodeset: the parsed lists, in set iteration order
    map1to2, map2to1,   \* map_nodeset: the two dicts
    unmapped1, unmapped2, \* map_nodeset: the returned unmapped sets
    stop,               \* map_nodeset: the loop variable of line 179
    tierOf,             \* ghost: label of set1 -> pass at which it was mapped
    pc,                 \* position inside map_nodeset
    net1, net2,         \* compare_networks: the two tables
    ct,                 \* compare_networks: the comparison threshold
    res12, res21,       \* outcome of compare_networks(net1, net2) and (net2, net1)
    networks,           \* compare_all_networks: name -> table
    thresholdFraction,  \* compare_all_networks: the threshold
    excluded,           \* compare_all_networks: names left out of the pass
    ci, cj,             \* compare_all_networks: positions of the two loops
    cpc,                \* compare_all_networks: position in the pass
    classified,         \* ghost: the classifications made so far, in order
    errored,            \* compare_all_networks: the pairs reported as errored
    taxon,              \* species_pattern: the label tax_name
    parsed,             \* species_pattern: the identifier returned
    ppc,                \* species_pattern: called, returned or raised
    kingdom,            \* complete_kingdoms_by_interactions: nodes[n]['kingdom'],
                        \*   n the position of the node in the dict nodes
    edges,              \* complete_kingdoms_by_interactions: the keys of edges
    unresolved_nodes,   \* complete_kingdoms_by_interactions: local
    current_unresolved, \* complete_kingdoms_by_interactions: local
    kpc,                \* complete_kingdoms_by_interactions: position
    kingdom0,           \* ghost: kingdom at the call
    sweeps,             \* ghost: iterations of the while loop begun so far
    plants1to2, plants2to1, \* compare_network_interactions: the row dicts
    pols1to2, pols2to1,     \* compare_network_interactions: the column dicts
    compareValue, countNomaps, \* compare_network_interactions: the flags
                        \*   compare_value and count_nomaps
    net1_total, net2_total,     \* compare_network_interactions: locals
    net1_missing, net2_missing, \* compare_network_interactions: locals
    todo1, todo2,       \* compare_network_interactions: cells the loops of
                        \*   lines 211 and 229 have not reached yet
    ipc,                \* compare_network_interactions: position
    visited,            \* ghost: what each loop iteration did
    db_concurrent_users, \* get_nodelist_kingdoms: the dict shared by the
                        \*   workers (db_counts in choose_db, get_node_kingdom)
    node_kingdoms,      \* get_nodelist_kingdoms: node id -> kingdom
    chosen_db,          \* choose_db: local of each submitted call
    loaded,             \* the value of db_counts[db] a call has read and not
                        \*   yet written back (lines 221, 236, 240)
    response,           \* get_node_kingdom: the kingdom parsed from the
                        \*   response, or the exception raised
    wpc,                \* get_node_kingdom: position of each submitted call
    gpc,                \* get_nodelist_kingdoms: position
    raced               \* ghost: a write of db_counts overwrote another call's

matcherVars == <<set1, set2, pset1, pset2, map1to2, map2to1, unmapped1,
                 unmapped2, stop, tierOf, pc>>

classifierVars == <<net1, net2, ct, res12, res21>>

corpusVars == <<networks, thresholdFraction, excluded, ci, cj, cpc,
                classified, errored>>

parserVars == <<taxon, parsed, ppc>>

kingdomVars == <<kingdom, edges, unresolved_nodes, current_unresolved, kpc,
                 kingdom0, sweeps>>

interactionVars == <<plants1to2, plants2to1, pols1to2, pols2to1,
                     compareValue, countNomaps, net1_total, net2_total,
                     net1_missing, net2_missing, todo1, todo2, ipc, visited>>

taxonomyVars == <<db_concurrent_users, node_kingdoms, chosen_db, loaded,
                  response, wpc, gpc, raced>>

\* the variables each component leaves alone
notMatcherVars == <<classifierVars, corpusVars, parserVars, kingdomVars,
                    interactionVars, taxonomyVars>>
notClassifierVars == <<matcherVars, corpusVars, parserVars, kingdomVars,
                       interactionVars, taxonomyVars>>
notCorpusVars == <<matcherVars, classifierVars, parserVars, kingdomVars,
                   interactionVars, taxonomyVars>>
notParserVars == <<matcherVars, classifierVars, corpusVars, kingdomVars,
                   interactionVars, taxonomyVars>>
notKingdomVars == <<matcherVars, classifierVars, corpusVars, parserVars,
                    interactionVars, taxonomyVars>>
notInteractionVars == <<matcherVars, classifierVars, corpusVars, parserVars,
                        kingdomVars, taxonomyVars>>
notTaxonomyVars == <<matcherVars, classifierVars, corpusVars, parserVars,
                     kingdomVars, interactionVars>>

vars == <<matcherVars, classifierVars, corpusVars, parserVars, kingdomVars,
          interactionVars, taxonomyVars>>

-----------------------------------------------------------------------------
(* Characters and strings *)

LowerCase == {"a","b","c","d","e","f","g","h","i","j","k","l","m",
              "n","o","p","q","r","s","t","u","v","w","x","y","z"}

Digits == {"0","1","2","3","4","5","6","7","8","9"}

\* Python None, as a value comparable with strings.
NONE == <<"<None>">>

\* s[i], or a value that is no character when i is out of range.
CharAt(s, i) == IF i \in 1..Len(s) THEN s[i] ELSE "<eos>"

StartsWithAt(s, k, pre) ==
    /\ k >= 1
    /\ k + Len(pre) - 1 <= Len(s)
    /\ \A i \in 1..Len(pre) : s[k + i - 1] = pre[i]

SetMin(S) == CHOOSE x \in S : \A y \in S : x <= y

\* The only element of a one-element set: The({e}) is e, evaluated once.
The(S) == CHOOSE x \in S : TRUE

\* tax_name.split(' ')
RECURSIVE Split(_)
Split(s) ==
    IF \A i \in 1..Len(s) : s[i] # " " THEN <<s>>
    ELSE The({<<SubSeq(s, 1, p - 1)>> \o Split(rest) :
                 <<p, rest>> \in
                     {<<q, SubSeq(s, q + 1, Len(s))>> :
                         q \in {SetMin({i \in 1..Len(s) : s[i] = " "})}}})

\* A Python list of words, kept as the words joined by the separator they
\* were split on (which no word contains), so list equality is string equality.
RECURSIVE Join(_)
Join(ws) ==
    IF Len(ws) = 0 THEN <<>>
    ELSE IF Len(ws) = 1 THEN ws[1]
    ELSE ws[1] \o <<" ">> \o Join(Tail(ws))

\* Attribute values: a str, or a list (only `extra` of a normal name is one).
PyStr(s) == [isList |-> FALSE, s |-> s]
PyList(ws) == [isList |-> TRUE, s |-> Join(ws)]
EmptyStr == PyStr(<<>>)

\* Number of consecutive digits of s from position k on: [0-9]*
RECURSIVE DigitRun(_, _)
DigitRun(s, k) == IF CharAt(s, k) \in Digits THEN 1 + DigitRun(s, k + 1) ELSE 0

Min2(a, b) == IF a <= b THEN a ELSE b

-----------------------------------------------------------------------------
(* Taxon identifier parser *)

\* re.match(r'(^sp$|n\.i\.|^sp[^a-z])', tax_name.split(' ')[1]); IndexError -> None
name_missing_structure(tax_name) ==
    LET words == Split(tax_name)
    IN  IF Len(words) < 2 THEN FALSE
        ELSE LET q == words[2]
             IN  \/ q = <<"s","p">>
                 \/ StartsWithAt(q, 1, <<"n",".","i",".">>)
                 \/ /\ StartsWithAt(q, 1, <<"s","p">>)
                    /\ Len(q) >= 3
                    /\ q[3] \notin LowerCase

\* Length matched at position p by ' (?P<base>sp\.{0,2}|n\.i\.)', 0 if none.
BaseLenAt(s, p) ==
    IF StartsWithAt(s, p, <<" ","s","p">>)
    THEN 3 + (IF CharAt(s, p + 3) = "."
              THEN (IF CharAt(s, p + 4) = "." THEN 2 ELSE 1)
              ELSE 0)
    ELSE IF StartsWithAt(s, p, <<" ","n",".","i",".">>) THEN 5
    ELSE 0

\* Length matched at k by '(?P<spnet>M_PL_[0-9]{3}(_[0-9]{0,3})?)?'
SpnetLenAt(s, k) ==
    IF /\ StartsWithAt(s, k, <<"M","_","P","L","_">>)
       /\ DigitRun(s, k + 5) >= 3
    THEN 8 + (IF CharAt(s, k + 8) = "_"
              THEN 1 + Min2(3, DigitRun(s, k + 9))
              ELSE 0)
    ELSE 0

\* re.search(SPECIES_SPATTERN, tax_name): the groups, or matched = FALSE.
\* Every part after the base is optional and greedy and the pattern ends in
\* '.*', so the first greedy choice at each part is the match.
SpeciesSearch(s) ==
    LET starts == {p \in 1..Len(s) : BaseLenAt(s, p) > 0}
        \* the positions after the base, the optional blank, spindex, the
        \* optional blank, spnet and the optional blank: k[1] .. k[6]
        after0 == {<<p + BaseLenAt(s, p)>> : p \in {SetMin(starts)}}
        after1 == {Append(k, k[1] + (IF CharAt(s, k[1]) = " " THEN 1 ELSE 0)) :
                      k \in after0}
        after2 == {Append(k, k[2] + DigitRun(s, k[2])) : k \in after1}
        after3 == {Append(k, k[3] + (IF CharAt(s, k[3]) = " " THEN 1 ELSE 0)) :
                      k \in after2}
        after4 == {Append(k, k[4] + SpnetLenAt(s, k[4])) : k \in after3}
        after5 == {Append(k, k[5] + (IF CharAt(s, k[5]) = " " THEN 1 ELSE 0)) :
                      k \in after4}
    IN  IF starts = {} THEN [matched |-> FALSE]
        ELSE The({[matched |-> TRUE,
                   spindex |-> SubSeq(s, k[2], k[3] - 1),
                   spnet   |-> SubSeq(s, k[4], k[5] - 1),
                   spextra |-> SubSeq(s, k[6], Len(s))] : k \in after5})

species_pattern(tax_name) ==
    LET tax_words == Split(tax_name)
        normal_structure ==
            [genus   |-> tax_words[1],
             species |-> IF Len(tax_words) > 1 THEN tax_words[2] ELSE <<>>,
             index   |-> <<>>,
             network |-> <<>>,
             extra   |-> IF Len(tax_words) > 2
                         THEN PyList(SubSeq(tax_words, 3, Len(tax_words)))
                         ELSE EmptyStr,
             origin  |-> tax_name]
        match == SpeciesSearch(tax_name)
    IN  IF ~name_missing_structure(tax_name) THEN normal_structure
        ELSE IF ~match.matched THEN normal_structure
        ELSE [genus   |-> tax_words[1],
              species |-> <<>>,
              index   |-> match.spindex,
              network |-> match.spnet,
              extra   |-> PyStr(match.spextra),
              origin  |-> tax_name]

\* lines 94-96: the IndexError species_pattern prints and re-raises. The
\* only subscript outside name_missing_structure that can fail is
\* tax_words[0], which fails when str.split returns no word.
species_pattern_raises(tax_name) == Len(Split(tax_name)) = 0

-----------------------------------------------------------------------------
(* Node matcher *)

\* getattr(a, arg)
Attr(a, arg) == IF arg = "extra" THEN a.extra ELSE PyStr(a[arg])

parameterized_compare(a, b, allow_empty, args) ==
    IF Len(args) = 0 THEN a = b
    ELSE \A n \in 1..Len(args) :
            /\ Attr(a, args[n]) = Attr(b, args[n])
            /\ (Attr(a, args[n]) # EmptyStr \/ allow_empty)

\* bool(v) of a dict value: None and '' are falsy
Truthy(v) == v # NONE /\ v # <<>>

\* map21.get(key, None)
DictGet(map, key) == IF key \in DOMAIN map THEN map[key] ELSE NONE

\* The inner loop's tests on one cmpb (lines 135-139): not skipped as a key of
\* map21, and the comparison holds and map21 has no truthy entry for it.
MatchesIgnoringMap21(cmpa, cmpb, map21, cmp_empty, args) ==
    parameterized_compare(cmpa, cmpb, ~cmp_empty, args)

Candidate(cmpa, cmpb, map21, cmp_empty, args) ==
    /\ cmpb.origin \notin DOMAIN map21
    /\ parameterized_compare(cmpa, cmpb, ~cmp_empty, args)
    /\ ~Truthy(DictGet(map21, cmpb.origin))

\* d[k] = v on a dict
DictSet(d, k, v) == [x \in DOMAIN d \cup {k} |-> IF x = k THEN v ELSE d[x]]

\* MapOne without lines 131-132: cmpa is matched again although it is
\* already a key of map12
MapOneAgain(cmpa, s2, m, cmp_empty, args) ==
    LET hits == {j \in 1..Len(s2) :
                    Candidate(cmpa, s2[j], m[2], cmp_empty, args)}
    IN  IF hits = {} THEN m
        ELSE <<DictSet(m[1], cmpa.origin, s2[SetMin(hits)].origin),
               DictSet(m[2], s2[SetMin(hits)].origin, cmpa.origin)>>

\* One iteration of the outer loop (lines 131-143) on the dicts m = <<map12, map21>>
MapOne(cmpa, s2, m, cmp_empty, args) ==
    IF cmpa.origin \in DOMAIN m[1] THEN m
    ELSE LET hits == {j \in 1..Len(s2) :
                         Candidate(cmpa, s2[j], m[2], cmp_empty, args)}
         IN  IF hits = {} THEN m
             ELSE <<DictSet(m[1], cmpa.origin, s2[SetMin(hits)].origin),
                    DictSet(m[2], s2[SetMin(hits)].origin, cmpa.origin)>>

\* The loop of lines 130-143 from element i of s1 on; returns <<map12, map21>>.
RECURSIVE MapLoop(_, _, _, _, _, _)
MapLoop(i, s1, s2, m, cmp_empty, args) ==
    IF i > Len(s1) THEN m
    ELSE The({MapLoop(i + 1, s1, s2, m2, cmp_empty, args) :
                 m2 \in {MapOne(s1[i], s2, m, cmp_empty, args)}})

\* map_nodeset_by_parameters starting from two empty dicts instead of the
\* dicts it is passed: what the earlier passes mapped is forgotten
map_nodeset_from_empty_dicts(s1, s2, map12, map21, cmp_empty, args) ==
    MapLoop(1, s1, s2, <<[x \in {} |-> NONE], [x \in {} |-> NONE]>>,
            cmp_empty, args)

\* map_nodeset_by_parameters without line 142: the reverse dict is not written
map_nodeset_forward_only(s1, s2, map12, map21, cmp_empty, args) ==
    <<MapLoop(1, s1, s2, <<map12, map21>>, cmp_empty, args)[1], map21>>

map_nodeset_by_parameters(s1, s2, map12, map21, cmp_empty, args) ==
    The({MapLoop(1, s1, s2, m, cmp_empty, args) : m \in {<<map12, map21>>}})

\* map_non_matches without the loop body: nothing is filled in
map_non_matches_no_fill(key_set, mapping) == mapping

\* map_non_matches: the completed mapping
map_non_matches(key_set, mapping) ==
    [k \in DOMAIN mapping \cup key_set |->
        IF k \in DOMAIN mapping THEN mapping[k] ELSE NONE]

nonspecific_parameters == <<"genus", "index", "network", "extra">>

EmptyDict == [x \in {} |-> NONE]

\* All lists holding the elements of the set S once each: the orders in which
\* iterating the Python set can yield them.
RECURSIVE Orders(_)
Orders(S) ==
    IF S = {} THEN {<<>>}
    ELSE UNION {{<<x>> \o o : o \in Orders(S \ {x})} : x \in S}

\* [species_pattern(sp_string) for sp_string in order]
ParseAll(order) == [n \in 1..Len(order) |-> species_pattern(order[n])]

-----------------------------------------------------------------------------
(* map_nodeset as a function of the two scan orders *)

Range(seq) == {seq[n] : n \in 1..Len(seq)}

\* One call of map_nodeset_by_parameters on the dicts m = <<map12, map21>>
Pass(p1, p2, m, cmp_empty, args) ==
    map_nodeset_by_parameters(p1, p2, m[1], m[2], cmp_empty, args)

\* lines 178-182 on the parsed lists p1, p2: the dicts after the five passes
Passes5(p1, p2) ==
    LET s0 == {Pass(p1, p2, <<EmptyDict, EmptyDict>>, TRUE, <<"origin">>)}
        s4 == {Pass(p1, p2, m, FALSE, SubSeq(nonspecific_parameters, 1, 4)) :
                  m \in s0}
        s3 == {Pass(p1, p2, m, FALSE, SubSeq(nonspecific_parameters, 1, 3)) :
                  m \in s4}
        s2 == {Pass(p1, p2, m, FALSE, SubSeq(nonspecific_parameters, 1, 2)) :
                  m \in s3}
    IN  The({Pass(p1, p2, m, TRUE, <<"species">>) : m \in s2})

\* lines 184-187
MapResult(s1, s2, m) ==
    [map1to2   |-> map_non_matches(s1, m[1]),
     map2to1   |-> map_non_matches(s2, m[2]),
     unmapped1 |-> s1 \ DOMAIN m[1],
     unmapped2 |-> s2 \ DOMAIN m[2]]

\* o1, o2: the labels of set1 and set2 in the order the sets are iterated
map_nodeset(o1, o2) ==
    The({MapResult(Range(o1), Range(o2), m) :
            m \in {The({Passes5(p1, p2) : p1 \in {ParseAll(o1)},
                                          p2 \in {ParseAll(o2)}})}})

-----------------------------------------------------------------------------
(* Interaction comparator *)

\* A table: index (row labels), columns (column labels), cell[<<row, col>>].
Interactions(net) ==
    {rc \in net.index \X net.columns : net.cell[rc] # 0}

\* the test of lines 225-226 without `and compare_value`: any difference of
\* the two values counts
CellMissingByValue(value, other, compare_value) ==
    other # value \/ other = 0

\* The test of lines 225-226 on the mapped cell, with `not` dropped
CellMissingInverted(value, other, compare_value) ==
    (other # value /\ compare_value) \/ other # 0

\* lines 225-226 (241-242): the mapped cell counts as missing
CellMissing(value, other, compare_value) ==
    (other # value /\ compare_value) \/ other = 0

\* line 222 (238) with the flag ignored
NomapIncrementAlways(flag) == 1

\* line 222 (238): 1 if count_nomaps else 0
NomapIncrement(flag) == IF flag THEN 1 ELSE 0

\* One loop of compare_network_interactions (lines 211-227, 229-243): the
\* number of interactions of `net` counted as missing in `other`.
MissingCount(net, other, plant_map, pol_map, compare_value, count_nomaps) ==
    Cardinality({rc \in Interactions(net) :
        LET mapped_plant == plant_map[rc[1]]
            mapped_pol   == pol_map[rc[2]]
        IN  IF ~(Truthy(mapped_pol) /\ Truthy(mapped_plant))
            THEN count_nomaps
            ELSE CellMissing(net.cell[rc],
                             other.cell[<<mapped_plant, mapped_pol>>],
                             compare_value)})

compare_network_interactions(n1, n2, plant_map12, plant_map21, pol_map12, pol_map21, compare_value, count_nomaps) ==
    [net1_missing |-> MissingCount(n2, n1, plant_map21, pol_map21,
                                   compare_value, count_nomaps),
     net2_missing |-> MissingCount(n1, n2, plant_map12, pol_map12,
                                   compare_value, count_nomaps),
     net1_total   |-> Cardinality(Interactions(n1)),
     net2_total   |-> Cardinality(Interactions(n2))]

-----------------------------------------------------------------------------
(* Duplicate classifier *)

Abs(x) == IF x < 0 THEN -x ELSE x

\* the comparison of lines 261-291 with >= in place of >
ExceedsOrEquals(count, size1, size2, c) ==
    count * 2 * c.den >= (size1 + size2) * c.num

\* count > (size1 + size2) / 2 * ct, for the threshold ct = num / den
Exceeds(count, size1, size2, c) ==
    count * 2 * c.den > (size1 + size2) * c.num

\* len(plants1_unmapped & plants2_unmapped)
UnmappedCountIntersection(u1, u2) == Cardinality(u1 \cap u2)

\* len(plants1_unmapped | plants2_unmapped), lines 277 and 282
UnmappedCount(u1, u2) == Cardinality(u1 \cup u2)

NotComputed == -1

\* What compare_networks returns (dup) and prints (reason), with the local
\* values it has computed when it returns.
Outcome(dup, reason, plants_unmapped, pols_unmapped, missing1, missing2) ==
    [dup |-> dup, reason |-> reason,
     plants_unmapped |-> plants_unmapped, pols_unmapped |-> pols_unmapped,
     net1_missing |-> missing1, net2_missing |-> missing2]

\* lines 277-297: the gates after the two calls of map_nodeset
AfterMapping(n1, n2, c, plants, pols) ==
    LET pu == plants.unmapped1 \cup plants.unmapped2
        qu == pols.unmapped1 \cup pols.unmapped2
    IN  IF Exceeds(UnmappedCount(plants.unmapped1, plants.unmapped2),
                   Cardinality(n1.index), Cardinality(n2.index), c)
        THEN Outcome(FALSE, "plant mapping", pu, qu, NotComputed, NotComputed)
        ELSE IF Exceeds(UnmappedCount(pols.unmapped1, pols.unmapped2),
                        Cardinality(n1.columns), Cardinality(n2.columns), c)
        THEN Outcome(FALSE, "pollinator mapping", pu, qu,
                     NotComputed, NotComputed)
        ELSE The({
            IF Exceeds(m.net1_missing + m.net2_missing,
                       m.net1_total, m.net2_total, c)
            THEN Outcome(FALSE, "interactions", pu, qu,
                         m.net1_missing, m.net2_missing)
            ELSE Outcome(TRUE, "duplicate", pu, qu,
                         m.net1_missing, m.net2_missing) :
            m \in {compare_network_interactions(n1, n2,
                       plants.map1to2, plants.map2to1,
                       pols.map1to2, pols.map2to1, FALSE, FALSE)}})

\* o: the orders in which the four label sets are iterated by map_nodeset
compare_networks(n1, n2, c, o) ==
    LET plantsize1 == Cardinality(n1.index)
        polsize1   == Cardinality(n1.columns)
        plantsize2 == Cardinality(n2.index)
        polsize2   == Cardinality(n2.columns)
    IN  IF Exceeds(Abs(plantsize1 - plantsize2), plantsize1, plantsize2, c)
        THEN Outcome(FALSE, "plant sizes", {}, {}, NotComputed, NotComputed)
        ELSE IF Exceeds(Abs(polsize1 - polsize2), polsize1, polsize2, c)
        THEN Outcome(FALSE, "pollinator sizes", {}, {},
                     NotComputed, NotComputed)
        ELSE The({AfterMapping(n1, n2, c, plants, pols) :
                     plants \in {map_nodeset(o.plants1, o.plants2)},
                     pols   \in {map_nodeset(o.pols1, o.pols2)}})

\* a label pandas read as a float (an empty cell of the csv), not a str
NaN == <<"<nan>">>

\* compare_networks raises instead of returning: past the two size gates,
\* map_nodeset parses every label of both tables, and tax_name.split (line
\* 72) raises AttributeError, which the except IndexError of line 94 does not
\* catch, on a label that is not a str.
compare_networks_raises(n1, n2, c) ==
    /\ ~Exceeds(Abs(Cardinality(n1.index) - Cardinality(n2.index)),
                Cardinality(n1.index), Cardinality(n2.index), c)
    /\ ~Exceeds(Abs(Cardinality(n1.columns) - Cardinality(n2.columns)),
                Cardinality(n1.columns), Cardinality(n2.columns), c)
    /\ NaN \in n1.index \cup n2.index \cup n1.columns \cup n2.columns

-----------------------------------------------------------------------------
(* Values of the variables of a component that is not running *)

NoTable == [index |-> {}, columns |-> {}, cell |-> EmptyDict]

NoOutcome == [dup |-> FALSE, reason |-> "not called"]

ClassifierIdle ==
    /\ net1 = NoTable
    /\ net2 = NoTable
    /\ ct = [num |-> 0, den |-> 1]
    /\ res12 = NoOutcome
    /\ res21 = NoOutcome

CorpusIdle ==
    /\ networks = EmptyDict
    /\ thresholdFraction = [num |-> 0, den |-> 1]
    /\ excluded = {}
    /\ ci = 0 /\ cj = 0
    /\ cpc = "idle"
    /\ classified = <<>>
    /\ errored = {}

ParserIdle ==
    /\ taxon = <<>>
    /\ parsed = <<>>
    /\ ppc = "idle"

KingdomIdle ==
    /\ kingdom = <<>>
    /\ edges = {}
    /\ unresolved_nodes = 0
    /\ current_unresolved = 0
    /\ kpc = "idle"
    /\ kingdom0 = <<>>
    /\ sweeps = 0

InteractionIdle ==
    /\ plants1to2 = EmptyDict /\ plants2to1 = EmptyDict
    /\ pols1to2 = EmptyDict /\ pols2to1 = EmptyDict
    /\ compareValue = FALSE /\ countNomaps = FALSE
    /\ net1_total = 0 /\ net2_total = 0
    /\ net1_missing = 0 /\ net2_missing = 0
    /\ todo1 = {} /\ todo2 = {}
    /\ ipc = "idle"
    /\ visited = {}

TaxonomyIdle ==
    /\ db_concurrent_users = EmptyDict
    /\ node_kingdoms = EmptyDict
    /\ chosen_db = <<>>
    /\ loaded = <<>>
    /\ response = <<>>
    /\ wpc = <<>>
    /\ gpc = "idle"
    /\ raced = FALSE

MatcherIdle ==
    /\ set1 = {} /\ set2 = {}
    /\ pset1 = <<>> /\ pset2 = <<>>
    /\ map1to2 = EmptyDict /\ map2to1 = EmptyDict
    /\ unmapped1 = {} /\ unmapped2 = {}
    /\ stop = 0
    /\ tierOf = EmptyDict
    /\ pc = "idle"

-----------------------------------------------------------------------------
(* map_nodeset as a state machine: one step per pass *)

MaxLabels == 2

BugSp1 == <<"B","u","g"," ","s","p","1">>
BugSp_1 == <<"B","u","g"," ","s","p"," ","1">>

Labels == { BugSp1,                           \* unresolved, index glued
            BugSp_1,                          \* unresolved, index spaced
            <<"B","u","g"," ","s","p","1"," ","X">>,  \* with extra text
            <<"R"," ","a">>,                  \* genus and species
            <<"R"," ","b">>,
            <<"S"," ","a">> }

LabelSets == {S \in SUBSET Labels : Cardinality(S) <= MaxLabels}

Cat == <<"C","a","t">>
CatSp2 == <<"C","a","t"," ","s","p","2">>

\* labels whose species field is empty: a single word and unresolved species
EmptySpeciesLabels == {BugSp1, Cat, CatSp2}

EmptySpeciesSets ==
    {S \in SUBSET EmptySpeciesLabels : S # {} /\ Cardinality(S) <= MaxLabels}

\* two species of a genus against a third species of it and a species of
\* that name in another genus
CongenerPair == { <<"R"," ","a">>, <<"R"," ","b">> }
CongenerAndNamesake == { <<"R"," ","c">>, <<"S"," ","a">> }

Passes == {"origin", "stop4", "stop3", "stop2", "species"}

\* The pass recorded for the keys a pass added to map12.
Stamp(old, map12, pass) ==
    [k \in DOMAIN map12 |-> IF k \in DOMAIN old THEN old[k] ELSE pass]

Init ==
    /\ \/ set1 \in LabelSets /\ set2 \in LabelSets
       \/ set1 \in EmptySpeciesSets /\ set2 \in EmptySpeciesSets
       \/ set1 = CongenerPair /\ set2 = CongenerAndNamesake
    /\ pset1 = <<>>
    /\ pset2 = <<>>
    /\ map1to2 = EmptyDict
    /\ map2to1 = EmptyDict
    /\ unmapped1 = {}
    /\ unmapped2 = {}
    /\ stop = 0
    /\ tierOf = EmptyDict
    /\ pc = "parse"
    /\ ClassifierIdle
    /\ CorpusIdle
    /\ ParserIdle
    /\ KingdomIdle
    /\ InteractionIdle
    /\ TaxonomyIdle

\* lines 173-177
Parse ==
    /\ pc = "parse"
    /\ \E o1 \in Orders(set1), o2 \in Orders(set2) :
          /\ pset1' = ParseAll(o1)
          /\ pset2' = ParseAll(o2)
    /\ map1to2' = EmptyDict
    /\ map2to1' = EmptyDict
    /\ pc' = "origin"
    /\ UNCHANGED <<set1, set2, unmapped1, unmapped2, stop, tierOf>>
    /\ UNCHANGED notMatcherVars

\* line 178 left out: no pass on the full name
PassOriginSkipped ==
    /\ pc = "origin"
    /\ stop' = Len(nonspecific_parameters)
    /\ pc' = "nonspecific"
    /\ UNCHANGED <<set1, set2, pset1, pset2, map1to2, map2to1, unmapped1,
                   unmapped2, tierOf>>
    /\ UNCHANGED notMatcherVars

\* line 178 comparing the wrong attribute
PassOriginOnGenus ==
    /\ pc = "origin"
    /\ LET r == map_nodeset_by_parameters(pset1, pset2, map1to2, map2to1,
                                          TRUE, <<"genus">>)
       IN  /\ map1to2' = r[1]
           /\ map2to1' = r[2]
           /\ tierOf' = Stamp(tierOf, r[1], "origin")
    /\ stop' = Len(nonspecific_parameters)
    /\ pc' = "nonspecific"
    /\ UNCHANGED <<set1, set2, pset1, pset2, unmapped1, unmapped2>>
    /\ UNCHANGED notMatcherVars

\* line 178
PassOrigin ==
    /\ pc = "origin"
    /\ LET r == map_nodeset_by_parameters(pset1, pset2, map1to2, map2to1,
                                          TRUE, <<"origin">>)
       IN  /\ map1to2' = r[1]
           /\ map2to1' = r[2]
           /\ tierOf' = Stamp(tierOf, r[1], "origin")
    /\ stop' = Len(nonspecific_parameters)
    /\ pc' = "nonspecific"
    /\ UNCHANGED <<set1, set2, pset1, pset2, unmapped1, unmapped2>>
    /\ UNCHANGED notMatcherVars

\* lines 179-181, one iteration
PassNonspecific ==
    /\ pc = "nonspecific"
    /\ LET r == map_nodeset_by_parameters(pset1, pset2, map1to2, map2to1,
                    FALSE, SubSeq(nonspecific_parameters, 1, stop))
       IN  /\ map1to2' = r[1]
           /\ map2to1' = r[2]
           /\ tierOf' = Stamp(tierOf, r[1],
                              CASE stop = 4 -> "stop4"
                                [] stop = 3 -> "stop3"
                                [] OTHER    -> "stop2")
    /\ stop' = stop - 1
    /\ pc' = IF stop - 1 > 1 THEN "nonspecific" ELSE "species"
    /\ UNCHANGED <<set1, set2, pset1, pset2, unmapped1, unmapped2>>
    /\ UNCHANGED notMatcherVars

\* line 182
PassSpecies ==
    /\ pc = "species"
    /\ LET r == map_nodeset_by_parameters(pset1, pset2, map1to2, map2to1,
                                          TRUE, <<"species">>)
       IN  /\ map1to2' = r[1]
           /\ map2to1' = r[2]
           /\ tierOf' = Stamp(tierOf, r[1], "species")
    /\ pc' = "finish"
    /\ UNCHANGED <<set1, set2, pset1, pset2, unmapped1, unmapped2, stop>>
    /\ UNCHANGED notMatcherVars

\* lines 184-187
Finish ==
    /\ pc = "finish"
    /\ unmapped1' = set1 \ DOMAIN map1to2
    /\ unmapped2' = set2 \ DOMAIN map2to1
    /\ map1to2' = map_non_matches(set1, map1to2)
    /\ map2to1' = map_non_matches(set2, map2to1)
    /\ pc' = "done"
    /\ UNCHANGED <<set1, set2, pset1, pset2, stop, tierOf>>
    /\ UNCHANGED notMatcherVars

Next == Parse \/ PassOrigin \/ PassNonspecific \/ PassSpecies \/ Finish

Spec == Init /\ [][Next]_vars

-----------------------------------------------------------------------------
(* Properties of map_nodeset *)

Mapped(map) == {k \in DOMAIN map : map[k] # NONE}

\* the labels of set that have no partner in map yet
NotYetMapped(set, map) == set \ {k \in DOMAIN map : map[k] # NONE}

\* C1: when map_nodeset returns, every label of set1 is a key of the forward
\* map and every label of set2 a key of the reverse map, and the labels
\* reported unmapped are mapped to None.
C1_Totality ==
    pc = "done" =>
        /\ set1 \subseteq DOMAIN map1to2
        /\ set2 \subseteq DOMAIN map2to1
        /\ \A a \in unmapped1 : map1to2[a] = NONE
        /\ \A b \in unmapped2 : map2to1[b] = NONE

C1_Witness ==
    /\ pc = "done"
    /\ unmapped1 # {} /\ unmapped2 # {}
    /\ Mapped(map1to2) # {}

\* C2: after every pass and in the returned maps, a forward entry a -> b with
\* b not None has the reverse entry b -> a, and the same with the maps swapped.
C2_Consistency ==
    /\ \A a \in Mapped(map1to2) :
          map1to2[a] \in DOMAIN map2to1 /\ map2to1[map1to2[a]] = a
    /\ \A b \in Mapped(map2to1) :
          map2to1[b] \in DOMAIN map1to2 /\ map1to2[map2to1[b]] = b

C2_Witness ==
    /\ pc = "species"
    /\ \E a \in DOMAIN tierOf : tierOf[a] = "origin"
    /\ \E a \in DOMAIN tierOf : tierOf[a] # "origin" /\ map1to2[a] # a

\* C3: in the returned maps no two distinct labels of one set are mapped to
\* the same label of the other set.
C3_Injectivity ==
    pc = "done" =>
        /\ \A a, c \in Mapped(map1to2) : a # c => map1to2[a] # map1to2[c]
        /\ \A b, d \in Mapped(map2to1) : b # d => map2to1[b] # map2to1[d]

\* a label stays unmapped although a label it compares equal to on the genus
\* is in the other set, because that label was taken
C3_Witness ==
    /\ pc = "done"
    /\ \E i \in 1..Len(pset1), j \in 1..Len(pset2) :
          /\ pset1[i].origin \in unmapped1
          /\ map2to1[pset2[j].origin] # NONE
          /\ parameterized_compare(pset1[i], pset2[j], TRUE,
                                   nonspecific_parameters)

\* C4: map_nodeset(S, S) maps every label of S to itself in both maps and
\* reports no unmapped label.
C4_Idempotence ==
    (pc = "done" /\ set1 = set2) =>
        /\ \A x \in set1 : map1to2[x] = x /\ map2to1[x] = x
        /\ unmapped1 = {} /\ unmapped2 = {}

\* two labels that also agree on every nonspecific field, scanned in
\* different orders on the two sides
C4_Witness ==
    /\ pc = "done" /\ set1 = set2
    /\ Len(pset1) >= 2
    /\ pset1[1] # pset2[1]
    /\ parameterized_compare(pset1[1], pset1[2], TRUE, nonspecific_parameters)

\* the parsed label of origin a in the list ps
ParsedOf(ps, a) == ps[CHOOSE n \in 1..Len(ps) : ps[n].origin = a]

\* the number of fields compared by the pass named tier
StopOf(tier) == CASE tier = "stop4" -> 4 [] tier = "stop3" -> 3 [] OTHER -> 2

\* C18: in the passes on the first stop fields of [genus, index, network,
\* extra] (stop = 4, 3, 2) two labels are paired only if every compared
\* field is equal and non-empty.
C18_StructuredTiersForbidEmpty ==
    \A a \in DOMAIN tierOf :
        tierOf[a] \in {"stop4", "stop3", "stop2"} =>
            \A n \in 1..StopOf(tierOf[a]) :
                LET arg == nonspecific_parameters[n]
                    va  == Attr(ParsedOf(pset1, a), arg)
                    vb  == Attr(ParsedOf(pset2, map1to2[a]), arg)
                IN  va = vb /\ va.s # <<>>

\* the part of C18 the code keeps: the fields compared by the pass that
\* paired two labels are equal
C18_ComparedFieldsEqual ==
    \A a \in DOMAIN tierOf :
        tierOf[a] \in {"stop4", "stop3", "stop2"} =>
            \A n \in 1..StopOf(tierOf[a]) :
                Attr(ParsedOf(pset1, a), nonspecific_parameters[n])
                    = Attr(ParsedOf(pset2, map1to2[a]),
                           nonspecific_parameters[n])

\* C19: after the last pass no label of set1 and label of set2 are both
\* left unmapped with equal species fields, the empty species included.
C19_SpeciesTierAllowsEmpty ==
    pc \in {"finish", "done"} =>
        \A a \in NotYetMapped(set1, map1to2), b \in NotYetMapped(set2, map2to1) :
            ParsedOf(pset1, a).species # ParsedOf(pset2, b).species

\* the part of C19 the code keeps: no two labels are both left unmapped with
\* equal species fields that are not empty
C19_NonEmptySpeciesPaired ==
    pc \in {"finish", "done"} =>
        \A a \in NotYetMapped(set1, map1to2), b \in NotYetMapped(set2, map2to1) :
            ParsedOf(pset1, a).species = ParsedOf(pset2, b).species
               => ParsedOf(pset1, a).species = <<>>

\* C20: every step of map_nodeset, a call of map_nodeset_by_parameters or
\* the final completion, keeps every entry of the forward and of the reverse
\* map as it was, and a pass only pairs labels that were keys of neither map.
C20_EarlierTiersNeverRevised ==
    [][/\ \A a \in DOMAIN map1to2 :
             a \in DOMAIN map1to2' /\ map1to2'[a] = map1to2[a]
       /\ \A b \in DOMAIN map2to1 :
             b \in DOMAIN map2to1' /\ map2to1'[b] = map2to1[b]
       /\ \A a \in (DOMAIN map1to2') \ (DOMAIN map1to2) :
             map1to2'[a] # NONE => map1to2'[a] \notin DOMAIN map2to1
      ]_vars

\* map_nodeset has returned with a label paired by the origin pass and a
\* label paired by a later pass
C20_Witness ==
    /\ pc = "done"
    /\ \E a \in DOMAIN tierOf : tierOf[a] = "origin" /\ map1to2[a] = a
    /\ \E a \in DOMAIN tierOf : tierOf[a] # "origin" /\ map1to2[a] # NONE

\* C28: for fixed label sets set1 and set2, the numbers of unmapped labels
\* map_nodeset returns are the same for every order in which the passes scan
\* the elements of set1 and of set2: the call that has returned left as many
\* labels unmapped on each side as the call on any other two orders.
C28_OrderIndependentCoverage ==
    pc = "done" =>
        \A o1 \in Orders(set1), o2 \in Orders(set2) :
            \A r \in {map_nodeset(o1, o2)} :
                /\ Cardinality(r.unmapped1) = Cardinality(unmapped1)
                /\ Cardinality(r.unmapped2) = Cardinality(unmapped2)

\* what the code keeps for every order: the mapped labels are paired one to
\* one, so both sides have the same number of mapped labels
C28_SameNumberMapped ==
    pc = "done" =>
        Cardinality(set1) - Cardinality(unmapped1)
            = Cardinality(set2) - Cardinality(unmapped2)

\* C29: for label sets of unique non-empty labels, every label that occurs
\* in both sets is mapped to itself in both dicts of the result of
\* map_nodeset, and from the pass on the full name on no later pass pairs it
\* with another label.
C29_ExactNamesWin ==
    \A x \in set1 \cap set2 :
        /\ pc \notin {"parse", "origin"} =>
              DictGet(map1to2, x) = x /\ DictGet(map2to1, x) = x
        /\ pc = "done" => map1to2[x] = x /\ map2to1[x] = x

\* a label of both sets was mapped to itself although set2 is scanned from
\* another label that agrees with it on genus and index
C29_Witness ==
    /\ pc = "done"
    /\ \E i \in 1..Len(pset1) :
          /\ pset1[i].origin \in set2
          /\ Len(pset2) >= 2
          /\ pset2[1].origin # pset1[i].origin
          /\ parameterized_compare(pset1[i], pset2[1], TRUE,
                                   SubSeq(nonspecific_parameters, 1, 2))
          /\ map1to2[pset1[i].origin] = pset1[i].origin
          /\ map2to1[pset1[i].origin] = pset1[i].origin

\* C7: "Bug sp1" and "Bug sp 1" parse to the same genus and index, the origin
\* pass does not pair them, and map_nodeset pairs them at the [genus, index]
\* pass (stop = 2), not earlier.
C7_SpacingVariantAtStop2 ==
    (pc = "done" /\ set1 = {BugSp1} /\ set2 = {BugSp_1}) =>
        /\ species_pattern(BugSp1).genus = species_pattern(BugSp_1).genus
        /\ species_pattern(BugSp1).index = species_pattern(BugSp_1).index
        /\ map1to2[BugSp1] = BugSp_1
        /\ map2to1[BugSp_1] = BugSp1
        /\ tierOf[BugSp1] = "stop2"

-----------------------------------------------------------------------------
(* compare_networks on a pair of tables, called in both argument orders *)

MaxRows == 2
MaxCells == 2

RowLabels == { <<"R"," ","a">>, <<"R"," ","b">>, <<"R"," ","c">> }
ColLabels == { <<"Q","1">>, <<"Q","2">> }
CellValues == {0, 1}

P1 == <<"P","1">>
P2 == <<"P","2">>
P3 == <<"P","3">>
P4 == <<"P","4">>

Tables(rows, cols) ==
    {[index |-> rows, columns |-> cols, cell |-> f] :
        f \in [rows \X cols -> CellValues]}

\* every table with at most MaxRows rows and at most MaxCells cells
SmallShapes ==
    {sh \in (SUBSET RowLabels) \X (SUBSET ColLabels) :
        /\ Cardinality(sh[1]) <= MaxRows
        /\ Cardinality(sh[1]) * Cardinality(sh[2]) <= MaxCells}

SmallTables == UNION {Tables(sh[1], sh[2]) : sh \in SmallShapes}

\* the tables of the rows {P1,P2,P3} and those of the rows {P1,P2,P4}
Scenario3Left == Tables({P1, P2, P3}, {<<"Q","1">>})
Scenario3Right == Tables({P1, P2, P4}, {<<"Q","1">>})

\* two species of one genus against two other species of the same genus
CongenersLeft == Tables({<<"R"," ","a">>, <<"R"," ","b">>}, {<<"Q","1">>})
CongenersRight == Tables({<<"R"," ","c">>, <<"R"," ","d">>}, {<<"Q","1">>})

\* ct: 0.05 (the default and the value passed at mainframe.py line 223), 1.0
DefaultCt == [num |-> 1, den |-> 20]
Thresholds == {DefaultCt, [num |-> 1, den |-> 1]}

\* The iteration orders of the four sets built at lines 273 and 275
ScanOrders(n1, n2) ==
    [plants1 : Orders(n1.index),   plants2 : Orders(n2.index),
     pols1   : Orders(n1.columns), pols2   : Orders(n2.columns)]

InitClassifier ==
    /\ MatcherIdle
    /\ CorpusIdle
    /\ ParserIdle
    /\ KingdomIdle
    /\ InteractionIdle
    /\ TaxonomyIdle
    /\ \/ net1 \in SmallTables /\ net2 \in SmallTables
       \/ net1 \in Scenario3Left /\ net2 \in Scenario3Right
       \/ net1 \in CongenersLeft /\ net2 \in CongenersRight
    /\ ct \in Thresholds
    /\ res12 = NoOutcome
    /\ res21 = NoOutcome

\* compare_networks(net1, net2, ct)
Compare12 ==
    /\ res12 = NoOutcome
    /\ \E o \in ScanOrders(net1, net2) :
          res12' = compare_networks(net1, net2, ct, o)
    /\ UNCHANGED <<net1, net2, ct, res21>>
    /\ UNCHANGED notClassifierVars

\* compare_networks(net2, net1, ct)
Compare21 ==
    /\ res21 = NoOutcome
    /\ \E o \in ScanOrders(net2, net1) :
          res21' = compare_networks(net2, net1, ct, o)
    /\ UNCHANGED <<net1, net2, ct, res12>>
    /\ UNCHANGED notClassifierVars

NextClassifier == Compare12 \/ Compare21

SpecClassifier == InitClassifier /\ [][NextClassifier]_vars

-----------------------------------------------------------------------------
(* Properties of compare_networks *)

Called(res) == res # NoOutcome

\* C5: for any two tables and any threshold, compare_networks(A, B) and
\* compare_networks(B, A) return the same verdict, in whatever order the
\* matcher iterates the label sets.
C5_Symmetry ==
    (Called(res12) /\ Called(res21)) => res12.dup = res21.dup

\* C6: two tables with the same row labels, the same column labels and the
\* same cell values are duplicates, with no interaction missing on either side.
C6_IdenticalAreDuplicates ==
    net1 = net2 =>
        /\ Called(res12) =>
              res12.dup /\ res12.net1_missing = 0 /\ res12.net2_missing = 0
        /\ Called(res21) =>
              res21.dup /\ res21.net1_missing = 0 /\ res21.net2_missing = 0

C6_Witness ==
    /\ net1 = net2
    /\ Called(res12)
    /\ ct = DefaultCt
    /\ Cardinality(net1.index) >= 2
    /\ Cardinality(Interactions(net1)) >= 1
    /\ \E rc \in net1.index \X net1.columns : net1.cell[rc] = 0

\* The mapping gates on one outcome of compare_networks(a, b, ct)
MappingGates(a, b, res) ==
    (Called(res) /\ res.reason \notin {"plant sizes", "pollinator sizes"}) =>
        LET plantsOver == Exceeds(Cardinality(res.plants_unmapped),
                             Cardinality(a.index), Cardinality(b.index), ct)
            polsOver   == Exceeds(Cardinality(res.pols_unmapped),
                             Cardinality(a.columns), Cardinality(b.columns), ct)
        IN  /\ plantsOver => (~res.dup /\ res.reason = "plant mapping")
            /\ (~plantsOver /\ polsOver) =>
                   (~res.dup /\ res.reason = "pollinator mapping")

Degenerate(net) == net.index = {} \/ net.columns = {}

\* C11: compare_networks called with a network that has zero rows or zero
\* columns raises an error and returns no true/false verdict: whenever a call
\* has returned a verdict, neither table is degenerate.
C11_DegenerateRejected ==
    /\ Called(res12) => ~Degenerate(net1) /\ ~Degenerate(net2)
    /\ Called(res21) => ~Degenerate(net1) /\ ~Degenerate(net2)

\* count <= ct * (size1 + size2) / 2
Within(count, size1, size2) ==
    count * 2 * ct.den <= (size1 + size2) * ct.num

\* The five gates on one outcome of compare_networks(a, b, ct)
Verdict(a, b, res) ==
    Called(res) =>
        LET rows1 == Cardinality(a.index)
            rows2 == Cardinality(b.index)
            cols1 == Cardinality(a.columns)
            cols2 == Cardinality(b.columns)
            g1 == Within(Abs(rows1 - rows2), rows1, rows2)
            g2 == Within(Abs(cols1 - cols2), cols1, cols2)
            g3 == Within(Cardinality(res.plants_unmapped), rows1, rows2)
            g4 == Within(Cardinality(res.pols_unmapped), cols1, cols2)
            g5 == Within(res.net1_missing + res.net2_missing,
                         Cardinality(Interactions(a)),
                         Cardinality(Interactions(b)))
        IN  /\ res.reason = "plant sizes" <=> ~g1
            /\ res.reason = "pollinator sizes" <=> (g1 /\ ~g2)
            /\ res.reason = "plant mapping" <=> (g1 /\ g2 /\ ~g3)
            /\ res.reason = "pollinator mapping" <=>
                    (g1 /\ g2 /\ g3 /\ ~g4)
            /\ res.reason = "interactions" <=>
                    (g1 /\ g2 /\ g3 /\ g4 /\ ~g5)
            /\ res.dup <=> (g1 /\ g2 /\ g3 /\ g4 /\ g5)
            /\ res.dup <=> res.reason = "duplicate"
            /\ (g1 /\ g2) =>
                    /\ res.plants_unmapped \subseteq a.index \cup b.index
                    /\ res.pols_unmapped \subseteq a.columns \cup b.columns

\* C23: compare_networks(net1, net2, ct) returns True exactly when none of
\* the five gates rejects (difference of the row counts, difference of the
\* column counts, unmapped rows of both tables, unmapped columns of both
\* tables, missing interactions of both tables, each against ct times the
\* mean of the two sizes), and a rejection is that of the first gate, in this
\* order, that fails.
C23_Verdict ==
    /\ Verdict(net1, net2, res12)
    /\ Verdict(net2, net1, res21)

\* four gates pass at ct = 0.05 and the fifth rejects
C23_Witness ==
    /\ Called(res12)
    /\ ct = DefaultCt
    /\ res12.reason = "interactions"
    /\ res12.net1_missing + res12.net2_missing >= 1
    /\ Called(res21)

-----------------------------------------------------------------------------
(* Corpus deduplicator: compare_all_networks(network_tables, ct, drop_early).
   mainframe.py imports it from duplicate_finder, whose file does not define
   it; the pass below follows section 4.5 of the specification and classifies
   each pair with compare_networks. *)

CorpusSize == 3

\* the names of the corpus, in iteration order
NetNames == <<"A", "B", "C", "D">>

Ones(rows, cols) ==
    [index |-> rows, columns |-> cols, cell |-> [rc \in rows \X cols |-> 1]]

Q1 == <<"Q","1">>
Q2 == <<"Q","2">>
P5 == <<"P","5">>

TwoRows == Ones({P1, P2}, {Q1})
TwoRowsTwoCols == Ones({P1, P2}, {Q1, Q2})
ThreeRows == Ones({P1, P2, P3}, {Q1})
FiveRows == Ones({P1, P2, P3, P4, P5}, {Q1})
Congeners == Ones({<<"R"," ","a">>, <<"R"," ","b">>}, {Q2})

CorpusTables == {TwoRows, TwoRowsTwoCols, ThreeRows}

\* a table one of whose row labels is not a str
NanRows == Ones({P1, NaN}, {Q1})

\* the corpora of three names holding NanRows, TwoRows and ThreeRows
ErrorCorpora ==
    {nw \in [{"A", "B", "C"} -> {NanRows, TwoRows, ThreeRows}] :
        \A a \in DOMAIN nw, b \in DOMAIN nw : a # b => nw[a] # nw[b]}

\* A of 2 rows, B of 5 rows, C unlike both
Scenario4 == [n \in {"A", "B", "C"} |->
                 CASE n = "A" -> TwoRows
                   [] n = "B" -> FiveRows
                   [] OTHER   -> Congeners]

\* the names of the corpus in the order the pass iterates them
RECURSIVE NamesFrom(_, _)
NamesFrom(k, nw) ==
    IF k > Len(NetNames) THEN <<>>
    ELSE (IF NetNames[k] \in DOMAIN nw THEN <<NetNames[k]>> ELSE <<>>)
         \o NamesFrom(k + 1, nw)

Names == NamesFrom(1, networks)

\* tieBreak that never looks at the sizes: the later network is dropped
tieBreakDropLater(ti, tj, rnd) == TRUE

\* tieBreak: TRUE when the network j is the one to drop. Keeps the network
\* with more plant rows; on a tie, more pollinator columns; then rnd.
tieBreak(ti, tj, rnd) ==
    IF Cardinality(ti.index) # Cardinality(tj.index)
    THEN Cardinality(ti.index) > Cardinality(tj.index)
    ELSE IF Cardinality(ti.columns) # Cardinality(tj.columns)
    THEN Cardinality(ti.columns) > Cardinality(tj.columns)
    ELSE rnd

\* the pass aborted by the error of one pair
AfterErrorAbort(i, j) == [ci |-> i, cj |-> j, cpc |-> "done"]

\* the loop positions after a pair whose classification raised: the error
\* is caught and the inner loop goes on with the next j
AfterError(i, j) == [ci |-> i, cj |-> j + 1, cpc |-> "inner"]

\* the loop positions after a duplicate, with the inner loop left whichever
\* network was dropped
AfterDuplicateAlwaysBreak(dropJ, i, j) ==
    [ci |-> i + 1, cj |-> j, cpc |-> "outer"]

\* the loop positions after a duplicate, without the break
AfterDuplicateNoBreak(dropJ, i, j) ==
    [ci |-> i, cj |-> j + 1, cpc |-> "inner"]

\* the loop positions after a duplicate: the inner loop goes on if j was
\* dropped and is left if i was dropped
AfterDuplicate(dropJ, i, j) ==
    IF dropJ THEN [ci |-> i, cj |-> j + 1, cpc |-> "inner"]
    ELSE [ci |-> i + 1, cj |-> j, cpc |-> "outer"]

InitCorpus ==
    /\ MatcherIdle
    /\ ClassifierIdle
    /\ ParserIdle
    /\ KingdomIdle
    /\ InteractionIdle
    /\ TaxonomyIdle
    /\ \/ networks \in [{NetNames[k] : k \in 1..CorpusSize} -> CorpusTables]
       \/ networks = Scenario4
       \/ networks \in ErrorCorpora
    /\ thresholdFraction \in Thresholds
    /\ excluded \in SUBSET DOMAIN networks
    /\ ci = 1
    /\ cj = 0
    /\ cpc = "outer"
    /\ classified = <<>>
    /\ errored = {}

\* name[i] is excluded: next i
SkipExcludedOuter ==
    /\ cpc = "outer"
    /\ ci <= Len(Names)
    /\ Names[ci] \in excluded
    /\ ci' = ci + 1
    /\ UNCHANGED <<networks, thresholdFraction, excluded, cj, cpc, classified, errored>>
    /\ UNCHANGED notCorpusVars

\* name[i] is not excluded: j starts at i + 1
EnterInner ==
    /\ cpc = "outer"
    /\ ci <= Len(Names)
    /\ Names[ci] \notin excluded
    /\ cj' = ci + 1
    /\ cpc' = "inner"
    /\ UNCHANGED <<networks, thresholdFraction, excluded, ci, classified, errored>>
    /\ UNCHANGED notCorpusVars

\* name[j] is excluded: next j
SkipExcludedInner ==
    /\ cpc = "inner"
    /\ cj <= Len(Names)
    /\ Names[cj] \in excluded
    /\ cj' = cj + 1
    /\ UNCHANGED <<networks, thresholdFraction, excluded, ci, cpc, classified, errored>>
    /\ UNCHANGED notCorpusVars

\* the pair (i, j) is classified without an error: resolve a duplicate
ClassifyReturned ==
    \E o \in ScanOrders(networks[Names[ci]], networks[Names[cj]]),
       rnd \in BOOLEAN :
       \E res \in {compare_networks(networks[Names[ci]],
                       networks[Names[cj]], thresholdFraction, o)} :
       \E dropJ \in {tieBreak(networks[Names[ci]],
                              networks[Names[cj]], rnd)} :
       \E loser \in {IF dropJ THEN Names[cj] ELSE Names[ci]} :
       \E after \in {AfterDuplicate(dropJ, ci, cj)} :
          /\ classified' = Append(classified,
                 [i |-> Names[ci], j |-> Names[cj], dup |-> res.dup,
                  err |-> FALSE,
                  dropped |-> IF res.dup THEN {loser} ELSE {},
                  rnd |-> rnd, before |-> excluded,
                  after |-> IF res.dup THEN excluded \cup {loser}
                            ELSE excluded])
          /\ errored' = errored
          /\ IF res.dup
             THEN /\ excluded' = excluded \cup {loser}
                  /\ ci' = after.ci
                  /\ cj' = after.cj
                  /\ cpc' = after.cpc
             ELSE /\ excluded' = excluded
                  /\ ci' = ci
                  /\ cj' = cj + 1
                  /\ cpc' = cpc

\* the classification of the pair (i, j) raised: report the pair as errored
ClassifyErrored ==
    \E after \in {AfterError(ci, cj)} :
       /\ classified' = Append(classified,
              [i |-> Names[ci], j |-> Names[cj], dup |-> FALSE,
               err |-> TRUE, dropped |-> {}, rnd |-> FALSE,
               before |-> excluded, after |-> excluded])
       /\ errored' = errored \cup {<<Names[ci], Names[cj]>>}
       /\ excluded' = excluded
       /\ ci' = after.ci
       /\ cj' = after.cj
       /\ cpc' = after.cpc

\* classify (networks[i], networks[j])
Classify ==
    /\ cpc = "inner"
    /\ cj <= Len(Names)
    /\ Names[cj] \notin excluded
    /\ IF compare_networks_raises(networks[Names[ci]], networks[Names[cj]],
                                  thresholdFraction)
       THEN ClassifyErrored
       ELSE ClassifyReturned
    /\ UNCHANGED <<networks, thresholdFraction>>
    /\ UNCHANGED notCorpusVars

\* j has passed the last name: next i
EndInner ==
    /\ cpc = "inner"
    /\ cj > Len(Names)
    /\ ci' = ci + 1
    /\ cpc' = "outer"
    /\ UNCHANGED <<networks, thresholdFraction, excluded, cj, classified, errored>>
    /\ UNCHANGED notCorpusVars

\* i has passed the last name: return excluded
ReturnExcluded ==
    /\ cpc = "outer"
    /\ ci > Len(Names)
    /\ cpc' = "done"
    /\ UNCHANGED <<networks, thresholdFraction, excluded, ci, cj, classified, errored>>
    /\ UNCHANGED notCorpusVars

NextCorpus ==
    \/ SkipExcludedOuter \/ EnterInner \/ SkipExcludedInner
    \/ Classify \/ EndInner \/ ReturnExcluded

SpecCorpus == InitCorpus /\ [][NextCorpus]_vars

Rows(name) == Cardinality(networks[name].index)
Cols(name) == Cardinality(networks[name].columns)

\* C9: whenever the pass classifies a pair (i, j) as duplicate, exactly one
\* of the two names is added to the excluded set: the network with fewer
\* plant rows; with equal rows the one with fewer pollinator columns; with
\* both equal the one the random source picks. For the corpus A (2 rows),
\* B (5 rows), C where only A and B are duplicates, the pass returns {A}.
C9_TieBreak ==
    /\ \A k \in 1..Len(classified) :
          LET e == classified[k] IN
          IF e.dup
          THEN /\ e.after \ e.before = e.dropped
               /\ e.dropped \in {{e.i}, {e.j}}
               /\ Rows(e.i) < Rows(e.j) => e.dropped = {e.i}
               /\ Rows(e.i) > Rows(e.j) => e.dropped = {e.j}
               /\ (Rows(e.i) = Rows(e.j) /\ Cols(e.i) < Cols(e.j))
                     => e.dropped = {e.i}
               /\ (Rows(e.i) = Rows(e.j) /\ Cols(e.i) > Cols(e.j))
                     => e.dropped = {e.j}
               /\ (Rows(e.i) = Rows(e.j) /\ Cols(e.i) = Cols(e.j))
                     => e.dropped = (IF e.rnd THEN {e.j} ELSE {e.i})
          ELSE e.after = e.before
    /\ ( /\ cpc = "done"
         /\ networks = Scenario4
         /\ Len(classified) > 0
         /\ classified[1].before = {}
         /\ \A k \in 1..Len(classified) :
               classified[k].dup <=>
                   (classified[k].i = "A" /\ classified[k].j = "B") )
       => excluded = {"A"}

\* the pass over A (2 rows), B (5 rows), C has returned, A and B were
\* classified duplicate, and B and C were compared afterwards
C9_Witness ==
    /\ cpc = "done"
    /\ networks = Scenario4
    /\ Len(classified) = 2
    /\ classified[1].before = {}
    /\ classified[1].dup /\ classified[1].i = "A" /\ classified[1].j = "B"
    /\ ~classified[2].dup /\ classified[2].i = "B" /\ classified[2].j = "C"
    /\ excluded = {"A"}

\* a duplicate pair of equal rows resolved on the columns
C9_ColumnsDecide ==
    \E k \in 1..Len(classified) :
        LET e == classified[k] IN
        e.dup /\ Rows(e.i) = Rows(e.j) /\ Cols(e.i) # Cols(e.j)

\* a duplicate pair of equal rows and columns resolved by the random source
C9_RandomDecides ==
    \E k \in 1..Len(classified) :
        LET e == classified[k] IN
        e.dup /\ Rows(e.i) = Rows(e.j) /\ Cols(e.i) = Cols(e.j)
              /\ e.dropped = {e.i}

\* C10: once a name is in the excluded set (pre-excluded or dropped as a
\* duplicate) no later classification has it as either member of the pair;
\* when the outer network i is the one dropped, no further j is compared
\* against i.
C10_ExcludedLeaveThePass ==
    /\ \A k \in 1..Len(classified) :
          /\ classified[k].i \notin classified[k].before
          /\ classified[k].j \notin classified[k].before
    /\ \A k \in 1..Len(classified), m \in 1..Len(classified) :
          (k < m /\ classified[k].dropped = {classified[k].i})
             => /\ classified[m].i # classified[k].i
                /\ classified[m].j # classified[k].i

\* the outer network was dropped while a later name was still to be
\* compared, a name was pre-excluded, and the pass went on to later pairs
C10_Witness ==
    /\ cpc = "done"
    /\ \E k \in 1..Len(classified) :
          /\ classified[k].dropped = {classified[k].i}
          /\ k < Len(classified)
          /\ \E n \in DOMAIN networks :
                /\ n \notin excluded
                /\ n # classified[k].j
                /\ \E q \in 1..Len(Names), r \in 1..Len(Names) :
                      q < r /\ Names[q] = classified[k].j /\ Names[r] = n

\* C13: when classifying one pair raises, the pass records that pair as
\* errored, excludes nothing for it and goes on: when the pass returns, every
\* pair of names that are both retained has been classified.
C13_ErrorIsolation ==
    /\ \A k \in 1..Len(classified) :
          classified[k].err =>
             /\ <<classified[k].i, classified[k].j>> \in errored
             /\ classified[k].after = classified[k].before
    /\ cpc = "done" =>
          \A q \in 1..Len(Names), r \in 1..Len(Names) :
             (q < r /\ Names[q] \notin excluded /\ Names[r] \notin excluded)
                => \E k \in 1..Len(classified) :
                      /\ classified[k].i = Names[q]
                      /\ classified[k].j = Names[r]

\* the pass has returned after a pair errored and later pairs were classified,
\* one of them a duplicate
C13_Witness ==
    /\ cpc = "done"
    /\ errored # {}
    /\ \E k \in 1..Len(classified), m \in 1..Len(classified) :
          /\ k < m
          /\ classified[k].err
          /\ classified[m].dup

\* C27: when the pass returns and no pair has errored, every two names i
\* before j that are both outside the returned excluded set were classified
\* as a pair (i, j) during the pass, and the verdict was not duplicate.
C27_RetainedPairwiseDistinct ==
    (cpc = "done" /\ errored = {}) =>
        \A q \in 1..Len(Names), r \in 1..Len(Names) :
            (q < r /\ Names[q] \notin excluded /\ Names[r] \notin excluded)
               => /\ \E k \in 1..Len(classified) :
                        /\ classified[k].i = Names[q]
                        /\ classified[k].j = Names[r]
                  /\ \A k \in 1..Len(classified) :
                        (/\ classified[k].i = Names[q]
                         /\ classified[k].j = Names[r])
                           => ~classified[k].dup /\ ~classified[k].err

\* the pass has returned without an error, it dropped a duplicate that was
\* not pre-excluded and it retains at least two networks
C27_Witness ==
    /\ cpc = "done"
    /\ errored = {}
    /\ \E k \in 1..Len(classified) : classified[k].dup
    /\ Cardinality(DOMAIN networks \ excluded) >= 2

-----------------------------------------------------------------------------
(* Parser state machine: one call of species_pattern on one label *)

MaxLabelLen == 4

Alphabet == {"B", " ", "s", "p", "1", "."}

\* every label of at most MaxLabelLen characters, the empty one included
TaxNames == UNION {[1..k -> Alphabet] : k \in 0..MaxLabelLen}

InitParser ==
    /\ MatcherIdle
    /\ ClassifierIdle
    /\ CorpusIdle
    /\ KingdomIdle
    /\ InteractionIdle
    /\ TaxonomyIdle
    /\ taxon \in TaxNames
    /\ parsed = <<>>
    /\ ppc = "call"

\* the call: it returns the identifier, or prints the label and re-raises
\* the IndexError
CallSpeciesPattern ==
    /\ ppc = "call"
    /\ IF species_pattern_raises(taxon)
       THEN parsed' = parsed /\ ppc' = "raised"
       ELSE parsed' = species_pattern(taxon) /\ ppc' = "returned"
    /\ UNCHANGED taxon
    /\ UNCHANGED notParserVars

NextParser == CallSpeciesPattern

SpecParser == InitParser /\ [][NextParser]_vars

SingleToken(s) == Len(s) > 0 /\ \A i \in 1..Len(s) : s[i] # " "

\* C12: species_pattern raises exactly for the empty label; every non-empty
\* label yields an identifier, and a single-token label yields genus = the
\* token with species, index, network and extra all empty.
C12_ParserErrorPolicy ==
    /\ ppc = "raised" => taxon = <<>>
    /\ ppc = "returned" => taxon # <<>>
    /\ (ppc = "returned" /\ SingleToken(taxon)) =>
          /\ parsed.genus = taxon
          /\ parsed.species = <<>>
          /\ parsed.index = <<>>
          /\ parsed.network = <<>>
          /\ parsed.extra = EmptyStr

\* the part of C12 the code keeps: no non-empty label raises, and a
\* single-token label is its own genus with every other field empty
C12_NonEmptyLabelsParse ==
    /\ ppc = "raised" => taxon = <<>>
    /\ (ppc = "returned" /\ SingleToken(taxon)) =>
          /\ parsed.genus = taxon
          /\ parsed.species = <<>>
          /\ parsed.index = <<>>
          /\ parsed.network = <<>>
          /\ parsed.extra = EmptyStr

-----------------------------------------------------------------------------
(* The core run to completion: a call of map_nodeset or a pass of
   compare_all_networks, each step taken as soon as it can be (the program
   is single-threaded and every call runs to its return). *)

\* the calls of map_nodeset on at most MaxLabels + 1 labels in all, and the
\* corpus passes
InitCore ==
    \/ Init /\ Cardinality(set1) + Cardinality(set2) <= MaxLabels + 1
    \/ InitCorpus

NextCore == Next \/ NextCorpus

SpecCore == InitCore /\ [][NextCore]_vars /\ WF_vars(NextCore)

\* C14: the run always terminates; from one tier of map_nodeset to the next
\* the sets of not-yet-mapped labels never grow; during the corpus pass the
\* excluded set only grows and the corpus is not changed.
C14_Termination ==
    /\ <>(pc = "done" \/ cpc = "done")
    /\ [][/\ NotYetMapped(set1, map1to2)' \subseteq NotYetMapped(set1, map1to2)
          /\ NotYetMapped(set2, map2to1)' \subseteq NotYetMapped(set2, map2to1)
         ]_vars
    /\ [][excluded \subseteq excluded' /\ networks' = networks]_vars

\* a call of map_nodeset has returned with a label paired by the last tier
\* and a label left unmapped
C14_Witness ==
    /\ pc = "done"
    /\ unmapped1 # {}
    /\ \E a \in DOMAIN tierOf : tierOf[a] = "species"

\* a corpus pass has returned with a network excluded as a duplicate
C14_WitnessCorpus ==
    /\ cpc = "done"
    /\ \E k \in 1..Len(classified) : classified[k].dup

-----------------------------------------------------------------------------
(* mangal_parser.complete_kingdoms_by_interactions(nodes, edges).
   A node is named by its position in the dict nodes, which is the order
   nodes.values() yields it; the edges range over every graph on the nodes,
   so every iteration order of every network is among the inputs.  An edge
   is the two-element set of its ends, as the frozenset keys built at
   mangal_parser.py line 143. *)

MaxNodes == 3

\* '' is a node without kingdom.  taxonomy_info.get_node_kingdom (lines
\* 241-243) stores whatever kingdom the web service returned, so a kingdom
\* outside ACCEPTED_KINGDOMS reaches the function.
Kingdoms == {"", "Plantae", "Animalia", "Chromista"}

AllEdges(n) == {{a, b} : a \in 1..n, b \in 1..n} \ {{a} : a \in 1..n}

\* construct_adjacency_list keeping only network_adjacency[src]: the lines
\* 163-166 that add src to the neighbours of dest are left out
NeighborsOfSrcOnly(n) == {m \in 1..Len(kingdom) : {n, m} \in edges /\ n < m}

\* network_adjacency.get(node['id'], [])
Neighbors(n) == {m \in 1..Len(kingdom) : {n, m} \in edges}

\* the for loop of lines 192-204 from node i on, on the kingdoms k, with
\* cur nodes counted unresolved so far
RECURSIVE SweepFrom(_, _, _)
SweepFrom(i, k, cur) ==
    IF i > Len(k) THEN [kingdom |-> k, current |-> cur, asserted |-> FALSE]
    ELSE IF k[i] # "" THEN SweepFrom(i + 1, k, cur)
    ELSE The({
        IF Cardinality(neighbor_kingdoms) >= 2
        THEN [kingdom |-> k, current |-> cur, asserted |-> TRUE]
        ELSE IF neighbor_kingdoms = {}
        THEN SweepFrom(i + 1, k, cur + 1)
        ELSE The({SweepFrom(i + 1, k2, cur) :
                 k2 \in {[k EXCEPT ![i] =
                             IF "Plantae" \in neighbor_kingdoms
                             THEN "Animalia" ELSE "Plantae"]}}) :
        neighbor_kingdoms \in {{k[m] : m \in Neighbors(i)} \ {""}}})

Unresolved(k) == Cardinality({n \in 1..Len(k) : k[n] = ""})

Cycle5 == {{1, 2}, {2, 3}, {3, 4}, {4, 5}, {1, 5}}
Path5 == {{1, 2}, {2, 3}, {3, 4}, {4, 5}}
TwoComponents == {{1, 2}, {2, 3}, {3, 4}, {4, 5}, {6, 7}}

\* the three networks of tests/mangal_test.py
TestNetworks ==
    { [kingdom |-> <<"", "", "", "", "Plantae">>, edges |-> Cycle5],
      [kingdom |-> <<"", "", "Plantae", "", "", "", "">>,
       edges |-> TwoComponents],
      [kingdom |-> <<"", "", "", "", "Plantae">>, edges |-> Path5] }

\* lines 182-186
InitKingdoms ==
    /\ MatcherIdle
    /\ ClassifierIdle
    /\ CorpusIdle
    /\ ParserIdle
    /\ InteractionIdle
    /\ TaxonomyIdle
    /\ \/ \E n \in 0..MaxNodes :
             /\ kingdom \in [1..n -> Kingdoms]
             /\ edges \in SUBSET AllEdges(n)
       \/ \E t \in TestNetworks : kingdom = t.kingdom /\ edges = t.edges
    /\ kingdom0 = kingdom
    /\ unresolved_nodes = Len(kingdom)
    /\ current_unresolved = Unresolved(kingdom)
    /\ kpc = "while"
    /\ sweeps = 0

\* Sweep without line 190: current_unresolved is not reset before the sweep
SweepWithoutReset ==
    /\ kpc = "while"
    /\ unresolved_nodes > current_unresolved
    /\ current_unresolved > 0
    /\ sweeps <= Len(kingdom)
    /\ sweeps' = sweeps + 1
    /\ unresolved_nodes' = current_unresolved
    /\ \E r \in {SweepFrom(1, kingdom, current_unresolved)} :
          /\ kingdom' = r.kingdom
          /\ current_unresolved' = r.current
          /\ kpc' = IF r.asserted THEN "asserted" ELSE "while"
    /\ UNCHANGED <<edges, kingdom0>>
    /\ UNCHANGED notKingdomVars

\* Sweep without line 189: unresolved_nodes stays len(nodes)
SweepWithoutUpdate ==
    /\ kpc = "while"
    /\ unresolved_nodes > current_unresolved
    /\ current_unresolved > 0
    /\ sweeps <= Len(kingdom)
    /\ sweeps' = sweeps + 1
    /\ \E r \in {SweepFrom(1, kingdom, 0)} :
          /\ kingdom' = r.kingdom
          /\ current_unresolved' = r.current
          /\ kpc' = IF r.asserted THEN "asserted" ELSE "while"
    /\ UNCHANGED <<edges, kingdom0, unresolved_nodes>>
    /\ UNCHANGED notKingdomVars

\* lines 188-204: one iteration of the while loop, ended by the assertion
\* of line 197 if it fails.  The guard on sweeps only keeps the ghost counter
\* finite; C30 shows it never holds the loop back.
Sweep ==
    /\ kpc = "while"
    /\ unresolved_nodes > current_unresolved
    /\ current_unresolved > 0
    /\ sweeps <= Len(kingdom)
    /\ sweeps' = sweeps + 1
    /\ unresolved_nodes' = current_unresolved
    /\ \E r \in {SweepFrom(1, kingdom, 0)} :
          /\ kingdom' = r.kingdom
          /\ current_unresolved' = r.current
          /\ kpc' = IF r.asserted THEN "asserted" ELSE "while"
    /\ UNCHANGED <<edges, kingdom0>>
    /\ UNCHANGED notKingdomVars

\* line 206
ReturnUnresolved ==
    /\ kpc = "while"
    /\ ~(unresolved_nodes > current_unresolved /\ current_unresolved > 0)
    /\ kpc' = "returned"
    /\ UNCHANGED <<kingdom, edges, unresolved_nodes, current_unresolved,
                   kingdom0, sweeps>>
    /\ UNCHANGED notKingdomVars

NextKingdoms == Sweep \/ ReturnUnresolved

SpecKingdoms == InitKingdoms /\ [][NextKingdoms]_vars

\* the call runs on: nothing suspends the loop
SpecKingdomsFair ==
    InitKingdoms /\ [][NextKingdoms]_vars /\ WF_vars(NextKingdoms)

\* the network has no odd cycle: its nodes can be put on two sides with
\* every edge between the sides
Bipartite ==
    \E side \in [1..Len(kingdom) -> {0, 1}] :
        \A e \in edges : \A a \in e, b \in e : a # b => side[a] # side[b]

\* the nodes connected to the nodes of S
RECURSIVE Component(_)
Component(S) ==
    IF \A e \in edges : e \cap S # {} => e \subseteq S THEN S
    ELSE Component(S \cup UNION {e \in edges : e \cap S # {}})

Inferred == {n \in 1..Len(kingdom) : kingdom0[n] = "" /\ kingdom[n] # ""}

\* C15: complete_kingdoms_by_interactions raises AssertionError for every
\* network that is not bipartite, whichever kingdoms are known initially and
\* whatever the iteration order: a call that returns had a bipartite network.
C15_NonBipartiteRejected ==
    kpc = "returned" => Bipartite

\* C16: when the call returns on a bipartite network, every node of a
\* component with a node of initially known kingdom has a kingdom, and every
\* node of a component with no initially known kingdom still has ''.
C16_ComponentwiseCompletion ==
    (kpc = "returned" /\ Bipartite) =>
        \A n \in 1..Len(kingdom) :
            IF \E m \in Component({n}) : kingdom0[m] # ""
            THEN kingdom[n] # ""
            ELSE kingdom[n] = ""

\* the network of test_isolated_components has returned with its expected
\* kingdoms
C16_Witness ==
    /\ kpc = "returned"
    /\ edges = TwoComponents
    /\ kingdom0 = <<"", "", "Plantae", "", "", "", "">>
    /\ kingdom = <<"Plantae", "Animalia", "Plantae", "Animalia", "Plantae",
                   "", "">>

\* C17: when the call returns, every edge whose two ends have a kingdom and
\* at least one of whose ends was inferred by the call joins a 'Plantae'
\* node and an 'Animalia' node.
C17_InferredAlternate ==
    kpc = "returned" =>
        \A e \in edges : \A a \in e, b \in e :
            (a # b /\ kingdom[a] # "" /\ kingdom[b] # "" /\ a \in Inferred)
               => {kingdom[a], kingdom[b]} = {"Plantae", "Animalia"}

\* the part of C17 the code keeps: the same, for the calls in which every
\* initially known kingdom is 'Plantae' or 'Animalia'
C17_AlternateFromAcceptedKingdoms ==
    (\A n \in 1..Len(kingdom0) : kingdom0[n] # "Chromista")
       => C17_InferredAlternate

\* C24: the integer complete_kingdoms_by_interactions returns is the number
\* of nodes whose kingdom is still '' when it returns, for every input, the
\* inputs for which the while loop is not entered (no node or every node of
\* known kingdom, or no node of known kingdom) included.
C24_ReturnsUnresolvedCount ==
    kpc = "returned" =>
        current_unresolved =
            Cardinality({n \in 1..Len(kingdom) : kingdom[n] = ""})

\* a return after a sweep that inferred a kingdom and left a node without
C24_Witness ==
    /\ kpc = "returned"
    /\ Inferred # {}
    /\ current_unresolved >= 1
    /\ unresolved_nodes < Len(kingdom)

\* C30: the while loop of complete_kingdoms_by_interactions ends, by the
\* return or by the assertion, after at most as many iterations as there are
\* nodes without kingdom at the call, and every iteration after which the
\* loop goes on has left fewer nodes without kingdom than it found.
C30_Termination ==
    /\ <>(kpc \in {"returned", "asserted"})
    /\ [](sweeps <= Unresolved(kingdom0))
    /\ [][(/\ sweeps' = sweeps + 1
           /\ kpc' = "while"
           /\ unresolved_nodes' > current_unresolved'
           /\ current_unresolved' > 0)
             => Unresolved(kingdom') < Unresolved(kingdom)]_vars

\* a call that returned after as many iterations as it had nodes without
\* kingdom, more than one
C30_Witness ==
    /\ kpc = "returned"
    /\ sweeps >= 2
    /\ sweeps = Unresolved(kingdom0)

-----------------------------------------------------------------------------
(* compare_network_interactions as a state machine: one step per cell.  The
   dicts are those compare_networks passes at lines 288-289, the results of
   map_nodeset on the row labels and on the column labels; the two flags take
   both values. *)

InteractionValues == {0, 1, 2}

ValuedTables(rows, cols) ==
    {[index |-> rows, columns |-> cols, cell |-> f] :
        f \in [rows \X cols -> InteractionValues]}

\* the row labels of the two tables: the same rows; one row of each table
\* without a partner; two species of one genus
RowPairs ==
    { <<{P1, P2}, {P1, P2}>>,
      <<{P1, P3}, {P1, P4}>>,
      <<{<<"R"," ","a">>}, {<<"R"," ","b">>}>> }

\* the column labels: the same column; two columns without a partner
ColPairs ==
    { <<{<<"Q","1">>}, {<<"Q","1">>}>>,
      <<{<<"Q","1">>}, {<<"Q","2">>}>> }

Cells(net) == net.index \X net.columns

InitInteractions ==
    /\ MatcherIdle
    /\ CorpusIdle
    /\ ParserIdle
    /\ KingdomIdle
    /\ TaxonomyIdle
    /\ \E rp \in RowPairs, cp \in ColPairs :
          /\ net1 \in ValuedTables(rp[1], cp[1])
          /\ net2 \in ValuedTables(rp[2], cp[2])
    /\ ct = [num |-> 0, den |-> 1]
    /\ res12 = NoOutcome
    /\ res21 = NoOutcome
    /\ \E o \in ScanOrders(net1, net2) :
          \E plants \in {map_nodeset(o.plants1, o.plants2)},
             pols \in {map_nodeset(o.pols1, o.pols2)} :
              /\ plants1to2 = plants.map1to2
              /\ plants2to1 = plants.map2to1
              /\ pols1to2 = pols.map1to2
              /\ pols2to1 = pols.map2to1
    /\ compareValue \in BOOLEAN
    /\ countNomaps \in BOOLEAN
    /\ net1_total = 0 /\ net2_total = 0
    /\ net1_missing = 0 /\ net2_missing = 0
    /\ todo1 = Cells(net1)
    /\ todo2 = Cells(net2)
    /\ ipc = "loop1"
    /\ visited = {}

\* What one iteration of the loop of line 212 (230) does on the cell rc of
\* `net`: the increments of the total and of the missing count of `other`.
VisitCell(side, net, other, plant_map, pol_map, rc) ==
    LET pol_interaction == net.cell[rc]
        mapped_plant == plant_map[rc[1]]
        mapped_pol   == pol_map[rc[2]]
    IN  IF pol_interaction = 0
        THEN [side |-> side, rc |-> rc, total |-> 0, missing |-> 0]
        ELSE IF ~(Truthy(mapped_pol) /\ Truthy(mapped_plant))
        THEN [side |-> side, rc |-> rc, total |-> 1,
              missing |-> NomapIncrement(countNomaps)]
        ELSE [side |-> side, rc |-> rc, total |-> 1,
              missing |-> IF CellMissing(pol_interaction,
                                 other.cell[<<mapped_plant, mapped_pol>>],
                                 compareValue)
                          THEN 1 ELSE 0]

\* lines 212-227: one cell of net1
CountIn1 ==
    /\ ipc = "loop1"
    /\ \E rc \in todo1 :
        LET v == VisitCell(1, net1, net2, plants1to2, pols1to2, rc)
        IN  /\ net1_total' = net1_total + v.total
            /\ net2_missing' = net2_missing + v.missing
            /\ todo1' = todo1 \ {rc}
            /\ visited' = visited \cup {v}
            /\ ipc' = IF todo1 = {rc} THEN "loop2" ELSE "loop1"
    /\ UNCHANGED <<plants1to2, plants2to1, pols1to2, pols2to1,
                   compareValue, countNomaps, net2_total, net1_missing,
                   todo2>>
    /\ UNCHANGED notInteractionVars

\* lines 230-243: one cell of net2
CountIn2 ==
    /\ ipc = "loop2"
    /\ \E rc \in todo2 :
        LET v == VisitCell(2, net2, net1, plants2to1, pols2to1, rc)
        IN  /\ net2_total' = net2_total + v.total
            /\ net1_missing' = net1_missing + v.missing
            /\ todo2' = todo2 \ {rc}
            /\ visited' = visited \cup {v}
    /\ UNCHANGED <<plants1to2, plants2to1, pols1to2, pols2to1,
                   compareValue, countNomaps, net1_total, net2_missing,
                   todo1, ipc>>
    /\ UNCHANGED notInteractionVars

\* line 245
ReturnCounts ==
    /\ ipc = "loop2"
    /\ todo2 = {}
    /\ ipc' = "done"
    /\ UNCHANGED <<plants1to2, plants2to1, pols1to2, pols2to1,
                   compareValue, countNomaps, net1_total, net2_total,
                   net1_missing, net2_missing, todo1, todo2, visited>>
    /\ UNCHANGED notInteractionVars

NextInteractions == CountIn1 \/ CountIn2 \/ ReturnCounts

SpecInteractions == InitInteractions /\ [][NextInteractions]_vars

\* the sum of a field over the iterations made on one table
Tally(side, field) ==
    Cardinality({v \in visited : v.side = side /\ v[field] = 1})

\* C21: every nonzero cell of net1 adds one to net1_total; when its row or
\* its column maps to None it adds one to net2_missing exactly when
\* countNomaps is set, so with countNomaps false an interaction touching an
\* unmapped node is in the total and never among the missing; the same for the
\* cells of net2 with net2_total and net1_missing.
C21_UnmappedEndpoints ==
    /\ \A v \in visited :
          LET net == IF v.side = 1 THEN net1 ELSE net2
              row == IF v.side = 1 THEN plants1to2[v.rc[1]]
                                   ELSE plants2to1[v.rc[1]]
              col == IF v.side = 1 THEN pols1to2[v.rc[2]]
                                   ELSE pols2to1[v.rc[2]]
          IN  /\ v.total = 1 <=> net.cell[v.rc] # 0
              /\ (net.cell[v.rc] # 0 /\ (row = NONE \/ col = NONE)) =>
                    (v.missing = 1 <=> countNomaps)
    /\ net1_total = Tally(1, "total") /\ net2_missing = Tally(1, "missing")
    /\ net2_total = Tally(2, "total") /\ net1_missing = Tally(2, "missing")
    /\ ipc = "done" =>
          /\ net1_total = Cardinality(Interactions(net1))
          /\ net2_total = Cardinality(Interactions(net2))

\* with the default flag, both tables have an interaction on an unmapped
\* node and nothing is missing
C21_Witness ==
    /\ ipc = "done"
    /\ ~countNomaps
    /\ \E rc \in Interactions(net1) :
          plants1to2[rc[1]] = NONE \/ pols1to2[rc[2]] = NONE
    /\ \E rc \in Interactions(net2) :
          plants2to1[rc[1]] = NONE \/ pols2to1[rc[2]] = NONE
    /\ net1_total >= 1 /\ net2_total >= 1
    /\ net1_missing = 0 /\ net2_missing = 0

\* C22: a nonzero cell of net1 whose row and column both map to labels of
\* net2 adds one to net2_missing exactly when the mapped cell of net2 is zero,
\* or compareValue is set and the mapped cell differs from it; with
\* compareValue false two nonzero cells of different value are not missing;
\* the same for the cells of net2 and net1_missing.
C22_MappedCells ==
    \A v \in visited :
        LET net == IF v.side = 1 THEN net1 ELSE net2
            other == IF v.side = 1 THEN net2 ELSE net1
            row == IF v.side = 1 THEN plants1to2[v.rc[1]]
                                 ELSE plants2to1[v.rc[1]]
            col == IF v.side = 1 THEN pols1to2[v.rc[2]]
                                 ELSE pols2to1[v.rc[2]]
        IN  (net.cell[v.rc] # 0 /\ row # NONE /\ col # NONE) =>
                /\ v.missing = 1 <=>
                      \/ other.cell[<<row, col>>] = 0
                      \/ compareValue /\ other.cell[<<row, col>>] # net.cell[v.rc]
                /\ (~compareValue /\ other.cell[<<row, col>>] # 0) =>
                      v.missing = 0

\* compareValue false, a cell 1 mapped onto a cell 2, nothing missing
C22_Witness ==
    /\ ipc = "done"
    /\ ~compareValue
    /\ \E rc \in Interactions(net1) :
          /\ plants1to2[rc[1]] # NONE /\ pols1to2[rc[2]] # NONE
          /\ net1.cell[rc] = 1
          /\ net2.cell[<<plants1to2[rc[1]], pols1to2[rc[2]]>>] = 2
    /\ net2_missing = 0

\* the counts of the loops are those of the operator compare_networks uses
InteractionCountsAgree ==
    ipc = "done" =>
        LET m == compare_network_interactions(net1, net2, plants1to2,
                     plants2to1, pols1to2, pols2to1, compareValue,
                     countNomaps)
        IN  /\ m.net1_missing = net1_missing /\ m.net2_missing = net2_missing
            /\ m.net1_total = net1_total /\ m.net2_total = net2_total

-----------------------------------------------------------------------------
(* taxonomy_info.get_nodelist_kingdoms: one call of get_node_kingdom per
   node, submitted to a pool of worker threads that share the dict
   db_concurrent_users.  A step of a call is one access to the shared dict;
   `db_counts[db] = db_counts[db] + 1` is a read and a later write. *)

MaxTasks == 2

\* ThreadPoolExecutor(max_workers=5), line 258
MaxWorkers == 5

TAXONOMY_DB == {"tsn", "bold", "ncbi", "col", "gbif"}

NCBI_REQUEST_THRESHOLD == 5

ACCEPTED_KINGDOMS == {"Animalia", "Plantae"}

\* the keys of tax_info (the databases that know the node), or every
\* database when tax_info is the node's name
PossibleDbs == {{"gbif"}, {"ncbi", "gbif"}, TAXONOMY_DB}

\* what parse_response returns
ServiceKingdoms == {"", "Plantae", "Animalia", "Chromista"}

\* the exceptions of line 235, and one that line 235 does not catch (a
\* KeyError of itis_parse_response, an IndexError of col_parse_response, a
\* requests.exceptions.ConnectionError, which is not the builtin one)
Handled == {"ConnectionError", "NotImplementedError"}
Unhandled == {"KeyError"}

Tasks == DOMAIN wpc

NoDb == "<no db>"
NoResponse == "<no response>"

\* lines 256-261
InitTaxonomy ==
    /\ MatcherIdle
    /\ ClassifierIdle
    /\ CorpusIdle
    /\ ParserIdle
    /\ KingdomIdle
    /\ InteractionIdle
    /\ db_concurrent_users = [db \in TAXONOMY_DB |-> 0]
    /\ node_kingdoms = EmptyDict
    /\ \E n \in 0..MaxTasks :
          /\ wpc = [t \in 1..n |-> "submitted"]
          /\ chosen_db = [t \in 1..n |-> NoDb]
          /\ loaded = [t \in 1..n |-> 0]
          /\ response = [t \in 1..n |-> NoResponse]
    /\ gpc = "submitted"
    /\ raced = FALSE

Running == {t \in Tasks : wpc[t] \notin {"submitted", "done", "raised"}}

\* lines 215-219: a worker takes the call; random.choice until the database
\* is not ncbi or ncbi has fewer than NCBI_REQUEST_THRESHOLD users
ChooseDb ==
    \E t \in Tasks :
        /\ wpc[t] = "submitted"
        /\ Cardinality(Running) < MaxWorkers
        /\ \E possible_dbs \in PossibleDbs : \E db \in possible_dbs :
              /\ db # "ncbi" \/ db_concurrent_users[db] < NCBI_REQUEST_THRESHOLD
              /\ chosen_db' = [chosen_db EXCEPT ![t] = db]
        /\ wpc' = [wpc EXCEPT ![t] = "chosen"]
        /\ UNCHANGED <<db_concurrent_users, node_kingdoms, loaded, response,
                       gpc, raced>>
        /\ UNCHANGED notTaxonomyVars

\* the right-hand side of line 221 (from "chosen") and of lines 236 and 240
\* (from "responded")
LoadCount ==
    \E t \in Tasks :
        /\ wpc[t] \in {"chosen", "responded"}
        /\ loaded' = [loaded EXCEPT ![t] = db_concurrent_users[chosen_db[t]]]
        /\ wpc' = [wpc EXCEPT ![t] =
                      IF wpc[t] = "chosen" THEN "incrementing" ELSE "decrementing"]
        /\ UNCHANGED <<db_concurrent_users, node_kingdoms, chosen_db, response,
                       gpc, raced>>
        /\ UNCHANGED notTaxonomyVars

\* the assignment of line 221
StoreIncrement ==
    \E t \in Tasks :
        /\ wpc[t] = "incrementing"
        /\ db_concurrent_users' =
              [db_concurrent_users EXCEPT ![chosen_db[t]] = loaded[t] + 1]
        /\ raced' = (raced \/ db_concurrent_users[chosen_db[t]] # loaded[t])
        /\ wpc' = [wpc EXCEPT ![t] = "requesting"]
        /\ UNCHANGED <<node_kingdoms, chosen_db, loaded, response, gpc>>
        /\ UNCHANGED notTaxonomyVars

\* lines 230-235: the request and the parsing of its response.  An exception
\* that line 235 does not catch ends the call (the future keeps it, nobody
\* asks for its result).
Request ==
    \E t \in Tasks :
        /\ wpc[t] = "requesting"
        /\ \E r \in ServiceKingdoms \cup Handled \cup Unhandled :
              /\ response' = [response EXCEPT ![t] = r]
              /\ wpc' = [wpc EXCEPT ![t] =
                            IF r \in Unhandled THEN "raised" ELSE "responded"]
        /\ UNCHANGED <<db_concurrent_users, node_kingdoms, chosen_db, loaded,
                       gpc, raced>>
        /\ UNCHANGED notTaxonomyVars

\* lines 241-243 on the dict d: the two assignments, one after the other
StoreKingdom(d, node_id, k) ==
    LET d1 == IF k \notin ACCEPTED_KINGDOMS THEN DictSet(d, node_id, "")
                                             ELSE d
    IN  DictSet(d1, node_id, k)

\* the assignment of line 236 with lines 237-238, or that of line 240 with
\* lines 241-243
StoreDecrement ==
    \E t \in Tasks :
        /\ wpc[t] = "decrementing"
        /\ db_concurrent_users' =
              [db_concurrent_users EXCEPT ![chosen_db[t]] = loaded[t] - 1]
        /\ raced' = (raced \/ db_concurrent_users[chosen_db[t]] # loaded[t])
        /\ node_kingdoms' =
              IF response[t] \in Handled THEN DictSet(node_kingdoms, t, "")
              ELSE StoreKingdom(node_kingdoms, t, response[t])
        /\ wpc' = [wpc EXCEPT ![t] = "done"]
        /\ UNCHANGED <<chosen_db, loaded, response, gpc>>
        /\ UNCHANGED notTaxonomyVars

\* lines 258-263: leaving the with block waits for every submitted call
ReturnKingdoms ==
    /\ gpc = "submitted"
    /\ \A t \in Tasks : wpc[t] \in {"done", "raised"}
    /\ gpc' = "returned"
    /\ UNCHANGED <<db_concurrent_users, node_kingdoms, chosen_db, loaded,
                   response, wpc, raced>>
    /\ UNCHANGED notTaxonomyVars

NextTaxonomy ==
    \/ ChooseDb
    \/ LoadCount
    \/ StoreIncrement
    \/ Request
    \/ StoreDecrement
    \/ ReturnKingdoms

SpecTaxonomy == InitTaxonomy /\ [][NextTaxonomy]_vars

\* C25: when get_nodelist_kingdoms returns, the counter of every database in
\* db_concurrent_users is 0, for every interleaving of the workers and every
\* outcome of the request and of the parsing (a kingdom, ConnectionError,
\* NotImplementedError, another exception).
C25_AllRequestsResolved ==
    gpc = "returned" => \A db \in TAXONOMY_DB : db_concurrent_users[db] = 0

\* the part of C25 the code keeps: the same, for the runs in which no call
\* raised an exception that line 235 does not catch and no write of a counter
\* overwrote the write of another call
C25_ResolvedWithoutRaceOrRaise ==
    (/\ gpc = "returned"
     /\ ~raced
     /\ \A t \in Tasks : wpc[t] = "done")
        => \A db \in TAXONOMY_DB : db_concurrent_users[db] = 0

\* C26: every value get_node_kingdom stores in node_kingdoms is 'Animalia',
\* 'Plantae' or ''; a kingdom outside ACCEPTED_KINGDOMS that a taxonomy
\* service returned (such as 'Chromista') is stored as ''.
C26_OnlyAcceptedKingdoms ==
    \A node_id \in DOMAIN node_kingdoms :
        node_kingdoms[node_id] \in ACCEPTED_KINGDOMS \cup {""}

\* what the code stores: the kingdom the service returned, whatever it is,
\* and '' after an exception of line 235
C26_StoresParsedKingdom ==
    /\ DOMAIN node_kingdoms = {t \in Tasks : wpc[t] = "done"}
    /\ \A t \in DOMAIN node_kingdoms :
          node_kingdoms[t] = IF response[t] \in Handled THEN ""
                             ELSE response[t]

====
